---- MODULE Spec2Model ----
(***************************************************************************)
(* Model of the applicant synchronisation scripts:                         *)
(*   src/decompress.py  decompress_applicant_data                          *)
(*   src/main.py        compress_evaluate_enrich, evaluate_shortlisting,   *)
(*                      calculate_total_experience, parse_llm_response,    *)
(*                      evaluate_with_llm                                  *)
(* The record store (Airtable) and the generation service (Gemini) are the *)
(* environment: every call to either may raise.                            *)
(***************************************************************************)
EXTENDS Integers, Sequences, FiniteSets, TLC

(***************************************************************************)
(* Bounds of the model.                                                    *)
(***************************************************************************)
\* number of operations (runs of either entry point) in one behaviour
MaxRuns == 2
\* largest number of Work Experience records / JSON experience entries
MaxExp == 2

(***************************************************************************)
(* Python dicts are functions from the present keys to their values.       *)
(***************************************************************************)
EmptyMap == [k \in {} |-> 0]

\* dict.get(k, default)
Get(d, k, default) == IF k \in DOMAIN d THEN d[k] ELSE default

\* dict.pop(k, None)
Pop(d, k) == [x \in (DOMAIN d) \ {k} |-> d[x]]

\* d[k] = v
Put(d, k, v) == [x \in (DOMAIN d) \cup {k} |-> IF x = k THEN v ELSE d[x]]

\* truthiness of a dict
Truthy(d) == DOMAIN d # {}

\* fields of a record after a PATCH with `new` (pyairtable Table.update,
\* replace=False: only the given fields are written, the others are kept)
Merge(old, new) ==
    [x \in (DOMAIN old) \cup (DOMAIN new) |-> IF x \in DOMAIN new THEN new[x] ELSE old[x]]

Range(s) == {s[i] : i \in 1..Len(s)}

(***************************************************************************)
(* Text values.  A string whose characters matter (str.lower, substring    *)
(* tests) is the sequence of its characters.                               *)
(***************************************************************************)
UpperChars == <<"A","B","C","D","E","F","G","H","I","J","K","L","M",
                "N","O","P","Q","R","S","T","U","V","W","X","Y","Z">>
LowerChars == <<"a","b","c","d","e","f","g","h","i","j","k","l","m",
                "n","o","p","q","r","s","t","u","v","w","x","y","z">>

\* str.lower() of one character
LowerChar(c) ==
    IF \E i \in 1..26 : UpperChars[i] = c
    THEN LowerChars[CHOOSE i \in 1..26 : UpperChars[i] = c]
    ELSE c

\* str.lower()
Lower(s) == [i \in 1..Len(s) |-> LowerChar(s[i])]

\* sub in s  (substring test)
Contains(s, sub) ==
    \E i \in 0..(Len(s) - Len(sub)) : SubSeq(s, i + 1, i + Len(sub)) = sub

(***************************************************************************)
(* The Compressed JSON text.  A text is not JSON at all ("invalid"), JSON  *)
(* of something that is no object ("value", as for "[]" or "null"), or an  *)
(* object, written as the sequence of its members in the order of the      *)
(* text.                                                                   *)
(***************************************************************************)
InvalidText == [kind |-> "invalid", members |-> <<>>]
NonObjectText == [kind |-> "value", members |-> <<>>]

\* json.dumps(final_json, indent=2) of the dict built at main.py:213-217:
\* the members in insertion order
json_dumps(final_json) ==
    [kind |-> "object",
     members |-> << [key |-> "personal", value |-> final_json["personal"]],
                    [key |-> "experience", value |-> final_json["experience"]],
                    [key |-> "salary", value |-> final_json["salary"]] >>]

\* the dict json.loads builds from an object text: of members with the same
\* key the last one wins
ObjectOf(members) ==
    [k \in {members[i].key : i \in 1..Len(members)} |->
        members[CHOOSE i \in 1..Len(members) :
                    /\ members[i].key = k
                    /\ \A j \in (i + 1)..Len(members) : members[j].key # k].value]

\* json.loads raises JSONDecodeError
JsonDecodeError(text) == text.kind = "invalid"

(***************************************************************************)
(* The record store.  A table is the sequence of its records in the order  *)
(* the store returns them; a record is [id, fields].  Record ids are       *)
(* assigned by the store and never reused.                                 *)
(***************************************************************************)
\* what Table.first returns when no record matches (None)
NoRecord == [id |-> 0, fields |-> EmptyMap]

\* formula {Applicant ID} = 'x' on the Applicants table
MatchesApplicantId(rec, x) ==
    /\ "Applicant ID" \in DOMAIN rec.fields
    /\ rec.fields["Applicant ID"] = x

\* the Applicant ID (primary field) of the Applicants record with id rid
PrimaryOf(apps, rid) ==
    IF \E i \in 1..Len(apps) : apps[i].id = rid
    THEN apps[CHOOSE i \in 1..Len(apps) : apps[i].id = rid].fields["Applicant ID"]
    ELSE ""

\* formula {Applicant} = 'x' on a child table: the link field shows the
\* primary field of the linked Applicants record
LinkedTo(apps, rec, x) ==
    /\ "Applicant" \in DOMAIN rec.fields
    /\ Len(rec.fields["Applicant"]) = 1
    /\ PrimaryOf(apps, rec.fields["Applicant"][1]) = x

\* the first record of a result list, or None
FirstOf(records) == IF records = <<>> THEN NoRecord ELSE Head(records)

\* APPLICANTS_TABLE.first(formula="{Applicant ID} = 'x'")
ApplicantsFirst(table, x) ==
    FirstOf(SelectSeq(table, LAMBDA r : MatchesApplicantId(r, x)))

\* faulty variant of TableAll: the formula is left out, every record is returned
TableAllUnfiltered(apps, table, x) == table

\* Table.all(formula="{Applicant} = 'x'"): the matching records in order
TableAll(apps, table, x) == SelectSeq(table, LAMBDA r : LinkedTo(apps, r, x))

\* Table.first(formula="{Applicant} = 'x'"): the first matching record, or None
TableFirst(apps, table, x) == FirstOf(TableAll(apps, table, x))

\* Table.create(fields): a new record with a fresh id
TableCreate(table, fields, newId) == Append(table, [id |-> newId, fields |-> fields])

\* Table.update(record_id, fields): PATCH of the given fields
TableUpdate(table, rid, fields) ==
    [i \in 1..Len(table) |->
        IF table[i].id = rid
        THEN [id |-> rid, fields |-> Merge(table[i].fields, fields)]
        ELSE table[i]]

\* Table.batch_delete(record_ids)
TableBatchDelete(table, ids) == SelectSeq(table, LAMBDA r : r.id \notin Range(ids))

\* Table.batch_create(records): one new record per element, fresh ids
TableBatchCreate(table, records, newId) ==
    table \o [i \in 1..Len(records) |-> [id |-> newId + i - 1, fields |-> records[i]]]

(***************************************************************************)
(* State.                                                                  *)
(***************************************************************************)
VARIABLES
    applicants,     \* APPLICANTS_TABLE
    personal,       \* PERSONAL_TABLE
    experience,     \* EXPERIENCE_TABLE
    salary,         \* SALARY_TABLE
    leads,          \* SHORTLISTED_LEADS_TABLE
    nextId,         \* the next record id the store assigns
    now,            \* datetime.now() as [y, m]
    pc,             \* position of the running operation, "idle" between runs
    frame,          \* local variables of the running operation, by name
    run,            \* history: the running or last run
    prev,           \* history: the run before it
    responded       \* history: applicants for which a generation response arrived

storeVars == <<applicants, personal, experience, salary, leads, nextId>>
vars == <<applicants, personal, experience, salary, leads, nextId, now,
          pc, frame, run, prev, responded>>

\* the whole store
Store ==
    [applicants |-> applicants, personal |-> personal, experience |-> experience,
     salary |-> salary, leads |-> leads]

\* the argument of the running (or last) operation
applicant_id_to_process == run.arg

\* the child records of applicant x in store st
ChildrenOf(st, x) ==
    [personal |-> TableAll(st.applicants, st.personal, x),
     experience |-> TableAll(st.applicants, st.experience, x),
     salary |-> TableAll(st.applicants, st.salary, x)]

\* history record of a run: the operation, its argument, its number, how it
\* ended ("running", "returned", "raised"), the calls it made to the store
\* and to the generation service (trace) and those that succeeded (done),
\* the applicants a generation response had arrived for when it began
\* (had), and the store before and after it
NoRun == [op |-> "none", arg |-> "", n |-> 0, status |-> "none", trace |-> <<>>,
          done |-> {}, had |-> {}, before |-> <<>>, after |-> <<>>]

\* one call of the running operation, for the history
Call(name, ok) == [call |-> name, ok |-> ok, secs |-> 0]
\* a generation call that returned the text `response_lines`; the history
\* keeps the text of the answer to a first attempt
Generated(response_lines, attempt) ==
    IF attempt = 0
    THEN [call |-> "l_generate", ok |-> TRUE, secs |-> 0, text |-> response_lines]
    ELSE Call("l_generate", TRUE)
Sleep(secs) == [call |-> "sleep", ok |-> TRUE, secs |-> secs]

\* the operation moves on to `next` with locals `fr`, having made the calls
\* `events`; "returned" and "raised" end it.  The store's primed variables
\* are set by the action before this conjunct.
Step(next, fr, events) ==
    LET ended == next \in {"returned", "raised"} IN
    /\ pc' = IF ended THEN "idle" ELSE next
    /\ frame' = IF ended THEN EmptyMap ELSE fr
    /\ run' = [run EXCEPT !.trace = @ \o events,
                          !.done = @ \cup {e.call : e \in {x \in Range(events) : x.ok}},
                          !.status = IF ended THEN next ELSE @,
                          !.after = IF ended THEN Store' ELSE @]
    /\ UNCHANGED <<now, prev>>

(***************************************************************************)
(* decompress_applicant_data  (src/decompress.py)                          *)
(***************************************************************************)
\* the first section at or after `from` whose JSON value is truthy:
\* the `if personal_data:`, `if experience_data:`, `if salary_data:` tests
DecompressNext(applicant_data, from) ==
    IF from = 1 /\ Truthy(Get(applicant_data, "personal", EmptyMap))
        THEN "d_personal_first"
    ELSE IF from <= 2 /\ Get(applicant_data, "experience", <<>>) # <<>>
        THEN "d_experience_all"
    ELSE IF Truthy(Get(applicant_data, "salary", EmptyMap))
        THEN "d_salary_first"
    ELSE "returned"

\* lines 46-47, 67-68, 76-77: attach the link to the root, drop the Id
Reattach(data, record_id) == Pop(Put(data, "Applicant", <<record_id>>), "Id")

\* faulty variant of Upsert: the lookup result is ignored and a record always created
UpsertAlwaysCreates(table, found, data, newId) == TableCreate(table, data, newId)

\* lines 48-53, 78-83: update the record the lookup found, else create one
Upsert(table, found, data, newId) ==
    IF found.id # 0 THEN TableUpdate(table, found.id, data)
    ELSE TableCreate(table, data, newId)

\* lines 28-43: fetch the root record and parse its Compressed JSON
DecompressFetchRoot ==
    /\ pc = "d_root"
    /\ LET rec == ApplicantsFirst(applicants, applicant_id_to_process)
           ev == <<Call("d_root", TRUE)>>
       IN  /\ UNCHANGED <<storeVars, responded>>
           /\ IF rec.id = 0
                THEN Step("returned", frame, ev)
              ELSE IF "Compressed JSON" \notin DOMAIN rec.fields
                THEN Step("returned", frame, ev)            \* KeyError
              ELSE IF JsonDecodeError(rec.fields["Compressed JSON"])
                THEN Step("returned", frame, ev)
              ELSE IF rec.fields["Compressed JSON"].kind # "object"
                THEN Step("raised", frame, ev)     \* line 43: no .get
              ELSE LET data == ObjectOf(rec.fields["Compressed JSON"].members) IN
                   Step(DecompressNext(data, 1),
                        Put(Put(frame, "applicant_record", rec), "applicant_data", data),
                        ev)

\* line 45
DecompressPersonalFirst ==
    /\ pc = "d_personal_first"
    /\ UNCHANGED <<storeVars, responded>>
    /\ Step("d_personal_write",
            Put(frame, "personal_record",
                TableFirst(applicants, personal, applicant_id_to_process)),
            <<Call("d_personal_first", TRUE)>>)

\* lines 46-53
DecompressPersonalWrite ==
    /\ pc = "d_personal_write"
    /\ LET personal_data == Reattach(frame["applicant_data"]["personal"],
                                     frame["applicant_record"].id)
       IN  /\ personal' = Upsert(personal, frame["personal_record"], personal_data, nextId)
           /\ nextId' = IF Len(personal') > Len(personal) THEN nextId + 1 ELSE nextId
    /\ UNCHANGED <<applicants, experience, salary, leads, responded>>
    /\ Step(DecompressNext(frame["applicant_data"], 2), frame,
            <<Call("d_personal_write", TRUE)>>)

\* lines 58-59
DecompressExperienceAll ==
    /\ pc = "d_experience_all"
    /\ UNCHANGED <<storeVars, responded>>
    /\ LET existing_exp_records ==
               TableAll(applicants, experience, applicant_id_to_process)
       IN  Step(IF existing_exp_records # <<>> THEN "d_experience_delete"
                ELSE "d_experience_create",
                Put(frame, "existing_exp_records", existing_exp_records),
                <<Call("d_experience_all", TRUE)>>)

\* lines 60-62
DecompressExperienceDelete ==
    /\ pc = "d_experience_delete"
    /\ LET record_ids_to_delete ==
               [i \in 1..Len(frame["existing_exp_records"]) |->
                    frame["existing_exp_records"][i].id]
       IN  experience' = TableBatchDelete(experience, record_ids_to_delete)
    /\ UNCHANGED <<applicants, personal, salary, leads, nextId, responded>>
    /\ Step("d_experience_create", frame, <<Call("d_experience_delete", TRUE)>>)

\* lines 64-70
DecompressExperienceCreate ==
    /\ pc = "d_experience_create"
    /\ LET experience_data == frame["applicant_data"]["experience"]
           records_to_create ==
               [i \in 1..Len(experience_data) |->
                    Reattach(experience_data[i], frame["applicant_record"].id)]
       IN  /\ experience' = TableBatchCreate(experience, records_to_create, nextId)
           /\ nextId' = nextId + Len(records_to_create)
    /\ UNCHANGED <<applicants, personal, salary, leads, responded>>
    /\ Step(DecompressNext(frame["applicant_data"], 3), frame,
            <<Call("d_experience_create", TRUE)>>)

\* line 75
DecompressSalaryFirst ==
    /\ pc = "d_salary_first"
    /\ UNCHANGED <<storeVars, responded>>
    /\ Step("d_salary_write",
            Put(frame, "salary_record",
                TableFirst(applicants, salary, applicant_id_to_process)),
            <<Call("d_salary_first", TRUE)>>)

\* lines 76-85
DecompressSalaryWrite ==
    /\ pc = "d_salary_write"
    /\ LET salary_data == Reattach(frame["applicant_data"]["salary"],
                                   frame["applicant_record"].id)
       IN  /\ salary' = Upsert(salary, frame["salary_record"], salary_data, nextId)
           /\ nextId' = IF Len(salary') > Len(salary) THEN nextId + 1 ELSE nextId
    /\ UNCHANGED <<applicants, personal, experience, leads, responded>>
    /\ Step("returned", frame, <<Call("d_salary_write", TRUE)>>)

\* a store call of decompress_applicant_data raises: nothing catches it
DecompressStoreCallRaises ==
    /\ pc \in {"d_root", "d_personal_first", "d_personal_write", "d_experience_all",
               "d_experience_delete", "d_experience_create", "d_salary_first",
               "d_salary_write"}
    /\ UNCHANGED <<storeVars, responded>>
    /\ Step("raised", frame, <<Call(pc, FALSE)>>)


(***************************************************************************)
(* Shortlisting  (src/main.py:34-85)                                       *)
(***************************************************************************)
\* JSON null / Python None
NullValue == [null |-> TRUE]

\* the text "YYYY-MM-DD" with the given numbers; any other text is [text |-> ..]
DateText(y, m, d) == [y |-> y, m |-> m, d |-> d]

TIER_1_COMPANIES ==
    { <<"g","o","o","g","l","e">>, <<"m","e","t","a">>, <<"o","p","e","n","a","i">>,
      <<"a","p","p","l","e">>, <<"a","m","a","z","o","n">>,
      <<"n","e","t","f","l","i","x">>, <<"m","i","c","r","o","s","o","f","t">> }

APPROVED_LOCATIONS ==
    { <<"u","s">>, <<"u","n","i","t","e","d"," ","s","t","a","t","e","s">>,
      <<"c","a","n","a","d","a">>, <<"u","k">>,
      <<"u","n","i","t","e","d"," ","k","i","n","g","d","o","m">>,
      <<"g","e","r","m","a","n","y">>, <<"i","n","d","i","a">> }

IsLeapYear(y) == (y % 4 = 0 /\ y % 100 # 0) \/ y % 400 = 0

DaysInMonth(y, m) ==
    IF m = 2 THEN (IF IsLeapYear(y) THEN 29 ELSE 28)
    ELSE IF m \in {4, 6, 9, 11} THEN 30 ELSE 31

\* datetime.strptime(v, "%Y-%m-%d") returns a date: v is a text of that
\* format naming a day of the calendar (None raises TypeError, any other
\* text ValueError)
Parses(v) ==
    /\ DOMAIN v = {"y", "m", "d"}
    /\ v.y \in 1..9999
    /\ v.m \in 1..12
    /\ v.d \in 1..DaysInMonth(v.y, v.m)

\* `if end_date_str`: None and the empty text are falsy
Falsy(v) == v = NullValue \/ v = [text |-> ""]

\* faulty variant of JobMonths: the month difference of line 47 is left out
JobMonthsYearsOnly(job, today) ==
    LET start == Get(job, "Start", NullValue)
        end_date_str == Get(job, "End", NullValue)
    IN  IF ~Parses(start) THEN 0
        ELSE IF Falsy(end_date_str) THEN (today.y - start.y) * 12
        ELSE IF ~Parses(end_date_str) THEN 0
        ELSE (end_date_str.y - start.y) * 12

\* lines 43-49: the months one job adds to total_months
JobMonths(job, today) ==
    LET start == Get(job, "Start", NullValue)
        end_date_str == Get(job, "End", NullValue)
    IN  IF ~Parses(start) THEN 0
        ELSE IF Falsy(end_date_str)
            THEN (today.y - start.y) * 12 + (today.m - start.m)
        ELSE IF ~Parses(end_date_str) THEN 0
        ELSE (end_date_str.y - start.y) * 12 + (end_date_str.m - start.m)

RECURSIVE total_months(_, _)
\* lines 41-49: total_months after the loop over experience_list
total_months(experience_list, today) ==
    IF experience_list = <<>> THEN 0
    ELSE JobMonths(Head(experience_list), today) + total_months(Tail(experience_list), today)

\* "{total_exp_years:.1f}" as a number of tenths: total_months / 12 rounded
\* to one decimal, halves (exact quarters of a year) to the even digit
ExpTenths(months) ==
    LET t == (months * 10) \div 12
        r == (months * 10) % 12
    IN  IF r > 6 THEN t + 1
        ELSE IF r < 6 THEN t
        ELSE IF t % 2 = 0 THEN t ELSE t + 1

\* line 59
worked_at_tier_1(experience_list) ==
    \E i \in 1..Len(experience_list) :
        Lower(Get(experience_list[i], "Company", <<>>)) \in TIER_1_COMPANIES

\* line 60: total_months / 12 >= 4
experience_ok(experience_list, today) ==
    total_months(experience_list, today) >= 4 * 12 \/ worked_at_tier_1(experience_list)

\* faulty variant of compensation_ok: an absent availability counts as 20
compensation_okDefault20(salary_data) ==
    /\ "Preferred Rate" \in DOMAIN salary_data
    /\ salary_data["Preferred Rate"] # NullValue
    /\ salary_data["Preferred Rate"].num <= 100
    /\ LET availability == Get(salary_data, "Availability (hrs/wk)", [num |-> 20]) IN
       /\ availability # NullValue
       /\ availability.num >= 20

\* lines 63-66: an absent rate is float('inf'), an absent availability 0
compensation_ok(salary_data) ==
    /\ "Preferred Rate" \in DOMAIN salary_data
    /\ salary_data["Preferred Rate"] # NullValue
    /\ salary_data["Preferred Rate"].num <= 100
    /\ LET availability == Get(salary_data, "Availability (hrs/wk)", [num |-> 0]) IN
       /\ availability # NullValue
       /\ availability.num >= 20

\* lines 69-71
location_ok(personal_data) ==
    LET location == Lower(Get(personal_data, "Location", <<>>)) IN
    \E loc \in APPROVED_LOCATIONS : Contains(location, loc)

\* line 74
ShortlistDecision(applicant_json, today) ==
    /\ experience_ok(Get(applicant_json, "experience", <<>>), today)
    /\ compensation_ok(Get(applicant_json, "salary", EmptyMap))
    /\ location_ok(Get(applicant_json, "personal", EmptyMap))

\* lines 76-82: the fields of the Shortlisted Lead
LeadFields(applicant_record, applicant_json, today) ==
    LET experience_list == Get(applicant_json, "experience", <<>>)
        salary_data == Get(applicant_json, "salary", EmptyMap)
        personal_data == Get(applicant_json, "personal", EmptyMap)
    IN  [x \in {"Applicant", "Compressed JSON", "Score Reason"} |->
            IF x = "Applicant" THEN <<applicant_record.id>>
            ELSE IF x = "Compressed JSON" THEN json_dumps(applicant_json)
            ELSE [exp |-> ExpTenths(total_months(experience_list, today)),
                  tier1 |-> worked_at_tier_1(experience_list),
                  rate |-> salary_data["Preferred Rate"],
                  availability |-> Get(salary_data, "Availability (hrs/wk)", [num |-> 0]),
                  loc |-> Get(personal_data, "Location", NullValue)]]


(***************************************************************************)
(* parse_llm_response  (src/main.py:87-114)                                *)
(* A line is the sequence of its tokens: a label ("Summary:", "Score:",    *)
(* "Issues:", "Follow-Ups:"), a blank " ", a sign, a digit, or a word.     *)
(* A response text is the sequence of its lines.                           *)
(***************************************************************************)
Blanks == {" ", "\n"}
Digits == <<"0", "1", "2", "3", "4", "5", "6", "7", "8", "9">>
IsDigit(tok) == \E i \in 1..10 : Digits[i] = tok
DigitValue(tok) == (CHOOSE i \in 1..10 : Digits[i] = tok) - 1

RECURSIVE LStrip(_)
LStrip(toks) ==
    IF toks # <<>> /\ Head(toks) \in Blanks THEN LStrip(Tail(toks)) ELSE toks

RECURSIVE RStrip(_)
RStrip(toks) ==
    IF toks # <<>> /\ toks[Len(toks)] \in Blanks
    THEN RStrip(SubSeq(toks, 1, Len(toks) - 1)) ELSE toks

\* str.strip()
Strip(toks) == RStrip(LStrip(toks))

\* line.startswith(label)
StartsWith(line, label) == line # <<>> /\ Head(line) = label

\* line.replace(label, "")
Without(line, label) == SelectSeq(line, LAMBDA tok : tok # label)

\* the lines of a text joined by "\n"
RECURSIVE JoinLines(_)
JoinLines(lines) ==
    IF lines = <<>> THEN <<>>
    ELSE IF Len(lines) = 1 THEN lines[1]
    ELSE lines[1] \o <<"\n">> \o JoinLines(Tail(lines))

\* str.split('\n')
RECURSIVE SplitLines(_)
SplitLines(toks) ==
    IF \E i \in 1..Len(toks) : toks[i] = "\n"
    THEN LET i == CHOOSE i \in 1..Len(toks) :
                    toks[i] = "\n" /\ \A j \in 1..(i - 1) : toks[j] # "\n"
         IN  <<SubSeq(toks, 1, i - 1)>> \o SplitLines(SubSeq(toks, i + 1, Len(toks)))
    ELSE <<toks>>

\* int(text) succeeds: an optional sign and at least one digit
IsInt(toks) ==
    LET digits == IF toks # <<>> /\ Head(toks) \in {"-", "+"} THEN Tail(toks) ELSE toks
    IN  digits # <<>> /\ \A i \in 1..Len(digits) : IsDigit(digits[i])

RECURSIVE DigitsValue(_)
DigitsValue(digits) ==
    IF digits = <<>> THEN 0
    ELSE DigitsValue(SubSeq(digits, 1, Len(digits) - 1)) * 10
         + DigitValue(digits[Len(digits)])

\* int(text)
IntOf(toks) ==
    IF Head(toks) = "-" THEN 0 - DigitsValue(Tail(toks))
    ELSE IF Head(toks) = "+" THEN DigitsValue(Tail(toks))
    ELSE DigitsValue(toks)

\* lines 94-109: the body of the loop for one line; st is
\* [parsed_data, current_section]
ParseLine(st, line) ==
    IF StartsWith(line, "Summary:")
        THEN [parsed_data |-> Put(st.parsed_data, "LLM Summary",
                                  Strip(Without(line, "Summary:"))),
              current_section |-> "summary"]
    ELSE IF StartsWith(line, "Score:")
        THEN IF IsInt(Strip(Without(line, "Score:")))
             THEN [parsed_data |-> Put(st.parsed_data, "LLM Score",
                                       IntOf(Strip(Without(line, "Score:")))),
                   current_section |-> "score"]
             ELSE st                                   \* ValueError: continue
    ELSE IF StartsWith(line, "Issues:") \/ StartsWith(line, "Follow-Ups:")
        THEN [parsed_data |-> Put(st.parsed_data, "LLM Follow-Ups",
                                  Get(st.parsed_data, "LLM Follow-Ups", <<>>)
                                      \o line \o <<"\n">>),
              current_section |-> "follow_ups"]
    ELSE IF st.current_section = "follow_ups" /\ Strip(line) # <<>>
        THEN [st EXCEPT !.parsed_data =
                 Put(@, "LLM Follow-Ups", @["LLM Follow-Ups"] \o line \o <<"\n">>)]
    ELSE st

RECURSIVE ParseLines(_, _)
ParseLines(st, lines) ==
    IF lines = <<>> THEN st
    ELSE ParseLines(ParseLine(st, Head(lines)), Tail(lines))

\* parse_llm_response(response_text), response_text given by its lines
parse_llm_response(response_lines) ==
    LET lines == SplitLines(Strip(JoinLines(response_lines)))
        parsed_data == ParseLines([parsed_data |-> EmptyMap, current_section |-> "none"],
                                  lines).parsed_data
    IN  IF "LLM Follow-Ups" \in DOMAIN parsed_data
        THEN Put(parsed_data, "LLM Follow-Ups", Strip(parsed_data["LLM Follow-Ups"]))
        ELSE parsed_data


(***************************************************************************)
(* evaluate_with_llm  (src/main.py:116-177)                                *)
(***************************************************************************)
\* line 145
max_retries == 3

\* line 120: the record carries a truthy LLM Score
HasLlmScore(applicant_record) ==
    /\ "LLM Score" \in DOMAIN applicant_record.fields
    /\ applicant_record.fields["LLM Score"] # 0

\* lines 120-122, 146: the position after entering evaluate_with_llm
LlmEntry(applicant_record) ==
    IF HasLlmScore(applicant_record) THEN "returned" ELSE "l_generate"

\* the texts the generation service may answer with
Responses ==
    { << <<"Summary:", " ", "solid">>, <<"Score:", " ", "8">> >>,
      << <<"Summary:", " ", "solid">>, <<"Score:", " ", "n/a">> >>,
      << <<"Score:", " ", "0">> >>,
      << <<>> >> }

\* lines 154-168: the generation call returns a text
LlmGenerate ==
    /\ pc = "l_generate"
    /\ \E response_lines \in Responses :
         LET update_data == parse_llm_response(response_lines) IN
         /\ UNCHANGED storeVars
         /\ responded' = responded \cup {applicant_id_to_process}
         /\ Step(IF Truthy(update_data) THEN "l_update" ELSE "returned",
                 Put(frame, "update_data", update_data),
                 <<Generated(response_lines, frame["attempt"])>>)

\* faulty variant of LlmUpdate: the `return` of line 168 is missing, the loop goes on
LlmUpdateNoReturn ==
    /\ pc = "l_update"
    /\ applicants' = TableUpdate(applicants, frame["applicant_record"].id,
                                 frame["update_data"])
    /\ UNCHANGED <<personal, experience, salary, leads, nextId, responded>>
    /\ IF frame["attempt"] < max_retries - 1
       THEN Step("l_generate", Put(frame, "attempt", frame["attempt"] + 1),
                 <<Call("l_update", TRUE)>>)
       ELSE Step("returned", frame, <<Call("l_update", TRUE)>>)

\* lines 165-168
LlmUpdate ==
    /\ pc = "l_update"
    /\ applicants' = TableUpdate(applicants, frame["applicant_record"].id,
                                 frame["update_data"])
    /\ UNCHANGED <<personal, experience, salary, leads, nextId, responded>>
    /\ Step("returned", frame, <<Call("l_update", TRUE)>>)

\* faulty variant of LlmAttemptRaises: the test of line 172 is missing, every failed
\* attempt is followed by a wait
LlmAttemptRaisesAlwaysWaits ==
    /\ pc \in {"l_generate", "l_update"}
    /\ UNCHANGED <<storeVars, responded>>
    /\ LET attempt == frame["attempt"] IN
       IF attempt < max_retries - 1
       THEN Step("l_generate", Put(frame, "attempt", attempt + 1),
                 <<Call(pc, FALSE), Sleep(2 ^ attempt)>>)
       ELSE Step("returned", frame, <<Call(pc, FALSE), Sleep(2 ^ attempt)>>)

\* faulty variant of LlmAttemptRaises: the loop allows one attempt more
LlmAttemptRaisesOneMore ==
    /\ pc \in {"l_generate", "l_update"}
    /\ UNCHANGED <<storeVars, responded>>
    /\ LET attempt == frame["attempt"] IN
       IF attempt < max_retries
       THEN Step("l_generate", Put(frame, "attempt", attempt + 1),
                 <<Call(pc, FALSE), Sleep(2 ^ attempt)>>)
       ELSE Step("returned", frame, <<Call(pc, FALSE)>>)

\* lines 170-177: the generation call or the update raises
LlmAttemptRaises ==
    /\ pc \in {"l_generate", "l_update"}
    /\ UNCHANGED <<storeVars, responded>>
    /\ LET attempt == frame["attempt"] IN
       IF attempt < max_retries - 1
       THEN Step("l_generate", Put(frame, "attempt", attempt + 1),
                 <<Call(pc, FALSE), Sleep(2 ^ attempt)>>)
       ELSE Step("returned", frame, <<Call(pc, FALSE)>>)

(***************************************************************************)
(* compress_evaluate_enrich  (src/main.py:181-230)                         *)
(***************************************************************************)
\* lines 186-192
CompressFetchRoot ==
    /\ pc = "c_root"
    /\ UNCHANGED <<storeVars, responded>>
    /\ LET applicant_record ==
               ApplicantsFirst(applicants, applicant_id_to_process)
       IN  IF applicant_record.id = 0
           THEN Step("returned", frame, <<Call("c_root", TRUE)>>)
           ELSE Step("c_personal", Put(frame, "applicant_record", applicant_record),
                     <<Call("c_root", TRUE)>>)

\* line 195
CompressFetchPersonal ==
    /\ pc = "c_personal"
    /\ UNCHANGED <<storeVars, responded>>
    /\ Step("c_experience",
            Put(frame, "personal_details",
                TableFirst(applicants, personal, applicant_id_to_process)),
            <<Call("c_personal", TRUE)>>)

\* line 196
CompressFetchExperience ==
    /\ pc = "c_experience"
    /\ UNCHANGED <<storeVars, responded>>
    /\ Step("c_salary",
            Put(frame, "work_experiences",
                TableAll(applicants, experience, applicant_id_to_process)),
            <<Call("c_experience", TRUE)>>)

\* faulty variant of BuildJson: the salary section is taken from personal_details
BuildJsonSalaryFromPersonal(personal_details, work_experiences, salary_prefs) ==
    [x \in {"personal", "experience", "salary"} |->
        IF x = "experience"
            THEN [i \in 1..Len(work_experiences) |->
                      Pop(work_experiences[i].fields, "Applicant")]
        ELSE Pop(personal_details.fields, "Applicant")]

\* lines 200-217: the JSON object built from the fetched records
BuildJson(personal_details, work_experiences, salary_prefs) ==
    [x \in {"personal", "experience", "salary"} |->
        IF x = "personal" THEN Pop(personal_details.fields, "Applicant")
        ELSE IF x = "experience"
            THEN [i \in 1..Len(work_experiences) |->
                      Pop(work_experiences[i].fields, "Applicant")]
        ELSE Pop(salary_prefs.fields, "Applicant")]

\* lines 197-217
CompressFetchSalary ==
    /\ pc = "c_salary"
    /\ UNCHANGED <<storeVars, responded>>
    /\ LET salary_prefs ==
               TableFirst(applicants, salary, applicant_id_to_process)
       IN  Step("c_persist",
                Put(frame, "final_json",
                    BuildJson(frame["personal_details"], frame["work_experiences"],
                              salary_prefs)),
                <<Call("c_salary", TRUE)>>)

\* lines 220-224, and evaluate_shortlisting up to its decision (line 74)
CompressPersist ==
    /\ pc = "c_persist"
    /\ applicants' = TableUpdate(applicants, frame["applicant_record"].id,
                                 [x \in {"Compressed JSON"} |->
                                      json_dumps(frame["final_json"])])
    /\ UNCHANGED <<personal, experience, salary, leads, nextId, responded>>
    /\ Step(IF ShortlistDecision(frame["final_json"], now) THEN "c_lead"
            ELSE LlmEntry(frame["applicant_record"]),
            Put(frame, "attempt", 0),
            <<Call("c_persist", TRUE)>>)

\* faulty variant of CompressCreateLead: a lead is created only when the applicant
\* has none yet
CompressCreateLeadDeduplicates ==
    /\ pc = "c_lead"
    /\ LET has_lead == \E i \in 1..Len(leads) :
                           leads[i].fields["Applicant"] = <<frame["applicant_record"].id>>
       IN  /\ leads' = IF has_lead THEN leads
                        ELSE TableCreate(leads,
                                 LeadFields(frame["applicant_record"], frame["final_json"], now),
                                 nextId)
           /\ nextId' = IF has_lead THEN nextId ELSE nextId + 1
    /\ UNCHANGED <<applicants, personal, experience, salary, responded>>
    /\ Step(LlmEntry(frame["applicant_record"]), frame, <<Call("c_lead", TRUE)>>)

\* lines 78-83, then line 227
CompressCreateLead ==
    /\ pc = "c_lead"
    /\ leads' = TableCreate(leads,
                    LeadFields(frame["applicant_record"], frame["final_json"], now),
                    nextId)
    /\ nextId' = nextId + 1
    /\ UNCHANGED <<applicants, personal, experience, salary, responded>>
    /\ Step(LlmEntry(frame["applicant_record"]), frame, <<Call("c_lead", TRUE)>>)

\* faulty variant of CompressStoreCallRaises: no handler, the exception leaves the
\* function
CompressStoreCallPropagates ==
    /\ pc \in {"c_root", "c_personal", "c_experience", "c_salary", "c_persist", "c_lead"}
    /\ UNCHANGED <<storeVars, responded>>
    /\ Step("raised", frame, <<Call(pc, FALSE)>>)

\* lines 229-230: a store call raises and the handler ends the run
CompressStoreCallRaises ==
    /\ pc \in {"c_root", "c_personal", "c_experience", "c_salary", "c_persist", "c_lead"}
    /\ UNCHANGED <<storeVars, responded>>
    /\ Step("returned", frame, <<Call(pc, FALSE)>>)

(***************************************************************************)
(* Runs.                                                                   *)
(***************************************************************************)
\* the identifiers the entry points are called with; "9" names no applicant
Targets == {"1", "9"}

\* what the history keeps of the trace of the run before the last: its
\* generation calls when no call failed, and else the mark of a failure
Kept(trace) ==
    IF \A i \in 1..Len(trace) : trace[i].ok
    THEN SelectSeq(trace, LAMBDA e : e.call = "l_generate")
    ELSE <<Call("failed", FALSE)>>

Begin(op, x, first) ==
    /\ pc = "idle"
    /\ run.n < MaxRuns
    /\ pc' = first
    /\ frame' = EmptyMap
    /\ prev' = [run EXCEPT !.trace = Kept(@), !.done = @ \cap {"c_persist"}]
    /\ run' = [op |-> op, arg |-> x, n |-> run.n + 1, status |-> "running",
               trace |-> <<>>, done |-> {}, had |-> responded,
               before |-> Store, after |-> <<>>]
    /\ UNCHANGED <<storeVars, now, responded>>

\* decompress_applicant_data(x) is called
BeginDecompress == \E x \in Targets : Begin("decompress", x, "d_root")

\* compress_evaluate_enrich(x) is called
BeginCompress == \E x \in Targets : Begin("compress", x, "c_root")

(***************************************************************************)
(* Initial states.                                                         *)
(***************************************************************************)
US == <<"U", "S">>
Mars == <<"M", "a", "r", "s">>
Google == <<"G", "o", "o", "g", "l", "e">>
Acme == <<"A", "c", "m", "e">>

\* a dict given by its keys and a record of values
Fields(keys, values) == [k \in keys |-> values[k]]

\* the Personal Details and Salary Preferences contents used together
PersonalSalaryPairs ==
    { [personal |-> EmptyMap, salary |-> EmptyMap],
      [personal |-> Fields({"Location", "Id"}, [Location |-> US, Id |-> [num |-> 7]]),
       salary |-> [k \in {"Preferred Rate", "Availability (hrs/wk)"} |->
                      IF k = "Preferred Rate" THEN [num |-> 80] ELSE [num |-> 25]]],
      [personal |-> Fields({"Location"}, [Location |-> Mars]),
       salary |-> [k \in {"Preferred Rate"} |-> [num |-> 120]]] }

GoogleJob ==
    Fields({"Company", "Start", "End", "Id"},
           [Company |-> Google, Start |-> DateText(2019, 1, 1),
            End |-> DateText(2021, 1, 1), Id |-> [num |-> 3]])

AcmeJob ==
    Fields({"Company", "Start"}, [Company |-> Acme, Start |-> DateText(2021, 6, 1)])

\* the experience lists of length at most n that alternate between the two jobs
ExperienceLists(n) ==
    { [i \in 1..k |-> IF i % 2 = first THEN GoogleJob ELSE AcmeJob] :
        k \in 0..n, first \in {0, 1} }

\* what one applicant's child records, or one compressed document, hold
Documents ==
    { [personal |-> ps.personal, experience |-> e, salary |-> ps.salary] :
        ps \in PersonalSalaryPairs, e \in ExperienceLists(MaxExp) }

\* the JSON text of a document
TextOf(doc) ==
    json_dumps([x \in {"personal", "experience", "salary"} |-> doc[x]])

\* the Compressed JSON field is absent
NoText == [kind |-> "none", members |-> <<>>]

\* the text of an object with the one key "experience"
ExperienceOnlyText ==
    [kind |-> "object", members |-> <<[key |-> "experience", value |-> <<AcmeJob>>]>>]

\* the texts the Compressed JSON field may hold
CompressedTexts ==
    {InvalidText, NonObjectText, ExperienceOnlyText} \cup {TextOf(doc) : doc \in Documents}

Linked(fields, rid) == Put(fields, "Applicant", <<rid>>)

\* Applicant "1" has the child records of a document and any Compressed JSON;
\* applicant "2" has a Personal Details and a Work Experience record.
Init ==
    /\ \E doc \in Documents, text \in CompressedTexts \cup {NoText} :
         /\ applicants =
              << [id |-> 1,
                  fields |-> IF text = NoText
                             THEN [k \in {"Applicant ID"} |-> "1"]
                             ELSE [k \in {"Applicant ID", "Compressed JSON"} |->
                                      IF k = "Applicant ID" THEN "1" ELSE text]],
                 [id |-> 2, fields |-> [k \in {"Applicant ID"} |-> "2"]] >>
         /\ personal =
              <<[id |-> 1, fields |-> Linked(Fields({"Location"}, [Location |-> US]), 2)]>>
              \o (IF Truthy(doc.personal)
                  THEN <<[id |-> 3, fields |-> Linked(doc.personal, 1)]>> ELSE <<>>)
         /\ salary =
              IF Truthy(doc.salary)
              THEN <<[id |-> 4, fields |-> Linked(doc.salary, 1)]>> ELSE <<>>
         /\ experience =
              <<[id |-> 2, fields |-> Linked(AcmeJob, 2)]>>
              \o [i \in 1..Len(doc.experience) |->
                      [id |-> 4 + i, fields |-> Linked(doc.experience[i], 1)]]
         /\ nextId = 5 + Len(doc.experience)
    /\ leads = <<>>
    /\ now = [y |-> 2023, m |-> 6]
    /\ pc = "idle"
    /\ frame = EmptyMap
    /\ run = NoRun
    /\ prev = NoRun
    /\ responded = {}

Next ==
    \/ BeginDecompress
    \/ DecompressFetchRoot
    \/ DecompressPersonalFirst
    \/ DecompressPersonalWrite
    \/ DecompressExperienceAll
    \/ DecompressExperienceDelete
    \/ DecompressExperienceCreate
    \/ DecompressSalaryFirst
    \/ DecompressSalaryWrite
    \/ DecompressStoreCallRaises
    \/ BeginCompress
    \/ CompressFetchRoot
    \/ CompressFetchPersonal
    \/ CompressFetchExperience
    \/ CompressFetchSalary
    \/ CompressPersist
    \/ CompressCreateLead
    \/ CompressStoreCallRaises
    \/ LlmGenerate
    \/ LlmUpdate
    \/ LlmAttemptRaises

Spec == Init /\ [][Next]_vars


(***************************************************************************)
(* evaluate_shortlisting called on its own  (src/main.py:52-85): the       *)
(* specification of one call, its argument drawn from ShortlistInputs.     *)
(***************************************************************************)
\* lines 57-71: the three rules
ShortlistRules ==
    /\ pc = "s_rules"
    /\ UNCHANGED <<storeVars, responded>>
    /\ LET applicant_json == frame["applicant_json"]
           experience_list == Get(applicant_json, "experience", <<>>)
           results ==
               [k \in {"total_months", "worked_at_tier_1", "experience_ok",
                       "compensation_ok", "location_ok"} |->
                   IF k = "total_months" THEN total_months(experience_list, now)
                   ELSE IF k = "worked_at_tier_1" THEN worked_at_tier_1(experience_list)
                   ELSE IF k = "experience_ok" THEN experience_ok(experience_list, now)
                   ELSE IF k = "compensation_ok"
                       THEN compensation_ok(Get(applicant_json, "salary", EmptyMap))
                   ELSE location_ok(Get(applicant_json, "personal", EmptyMap))]
       IN  Step("s_decide", Merge(frame, results), <<>>)

\* line 74
ShortlistDecide ==
    /\ pc = "s_decide"
    /\ UNCHANGED <<storeVars, responded>>
    /\ Step(IF frame["experience_ok"] /\ frame["compensation_ok"] /\ frame["location_ok"]
            THEN "s_create" ELSE "returned",
            frame, <<>>)

\* lines 76-83
ShortlistCreateLead ==
    /\ pc = "s_create"
    /\ leads' = TableCreate(leads,
                    LeadFields(frame["applicant_record"], frame["applicant_json"], now),
                    nextId)
    /\ nextId' = nextId + 1
    /\ UNCHANGED <<applicants, personal, experience, salary, responded>>
    /\ Step("returned", frame, <<Call("s_create", TRUE)>>)

\* SHORTLISTED_LEADS_TABLE.create raises: evaluate_shortlisting has no handler
ShortlistCreateRaises ==
    /\ pc = "s_create"
    /\ UNCHANGED <<storeVars, responded>>
    /\ Step("raised", frame, <<Call("s_create", FALSE)>>)

\* one number value of a JSON document
Num(n) == [num |-> n]

\* the values of Preferred Rate and of Availability (hrs/wk); "absent" stands
\* for a key that is not in the object
Absent == [absent |-> TRUE]
RateValues == {Absent, NullValue, Num(80), Num(100), Num(101)}
AvailabilityValues == {Absent, NullValue, Num(19), Num(20), Num(25)}

\* the object with the keys of `values` whose value is not Absent
Present(keys, values) == [k \in {x \in keys : values[x] # Absent} |-> values[k]]

SalaryInputs ==
    { Present({"Preferred Rate", "Availability (hrs/wk)"},
              [k \in {"Preferred Rate", "Availability (hrs/wk)"} |->
                  IF k = "Preferred Rate" THEN r ELSE a]) :
        r \in RateValues, a \in AvailabilityValues }

UnitedStates == <<"U","n","i","t","e","d"," ","S","t","a","t","e","s">>

PersonalInputs ==
    { EmptyMap, Fields({"Location"}, [Location |-> UnitedStates]),
      Fields({"Location"}, [Location |-> Mars]) }

\* experience entries: 24 months; 24 months up to now; 23 months up to now
\* (no End); a tier-1 employer for 2 months; no Start; a Start that is no
\* date of the calendar
JobInputs ==
    { Fields({"Company", "Start", "End"},
             [Company |-> Acme, Start |-> DateText(2019, 1, 1), End |-> DateText(2021, 1, 1)]),
      Fields({"Company", "Start", "End"},
             [Company |-> Acme, Start |-> DateText(2021, 6, 1), End |-> NullValue]),
      Fields({"Company", "Start"}, [Company |-> Acme, Start |-> DateText(2021, 7, 15)]),
      Fields({"Company", "Start", "End"},
             [Company |-> Google, Start |-> DateText(2023, 1, 1), End |-> DateText(2023, 3, 1)]),
      Fields({"End"}, [End |-> DateText(2021, 1, 1)]),
      Fields({"Company", "Start", "End"},
             [Company |-> Acme, Start |-> DateText(2021, 2, 30), End |-> NullValue]) }

\* the lists of at most n entries
ExperienceInputs(n) == UNION { [1..k -> JobInputs] : k \in 0..n }

\* the documents evaluate_shortlisting is called with
ShortlistInputs ==
    { [personal |-> p, experience |-> e, salary |-> sal] :
        p \in PersonalInputs, e \in ExperienceInputs(MaxExp), sal \in SalaryInputs }

\* evaluate_shortlisting(applicant_record, applicant_json) has been called
InitShortlist ==
    /\ applicants = <<[id |-> 1, fields |-> [k \in {"Applicant ID"} |-> "1"]]>>
    /\ personal = <<>>
    /\ experience = <<>>
    /\ salary = <<>>
    /\ leads = <<>>
    /\ nextId = 2
    /\ now = [y |-> 2023, m |-> 6]
    /\ pc = "s_rules"
    /\ \E doc \in ShortlistInputs :
         LET applicant_json == [x \in {"personal", "experience", "salary"} |-> doc[x]] IN
         /\ frame = [k \in {"applicant_record", "applicant_json"} |->
                        IF k = "applicant_record" THEN applicants[1] ELSE applicant_json]
         /\ run = [op |-> "shortlist", arg |-> applicant_json, n |-> 1,
                   status |-> "running", trace |-> <<>>, done |-> {}, had |-> {},
                   before |-> [applicants |-> applicants, personal |-> <<>>,
                               experience |-> <<>>, salary |-> <<>>, leads |-> <<>>],
                   after |-> <<>>]
    /\ prev = NoRun
    /\ responded = {}

NextShortlist ==
    \/ ShortlistRules
    \/ ShortlistDecide
    \/ ShortlistCreateLead
    \/ ShortlistCreateRaises

SpecShortlist == InitShortlist /\ [][NextShortlist]_vars


(***************************************************************************)
(* The three sections of decompress_applicant_data (src/decompress.py:     *)
(* 42-83) run as three tasks after the root record has been resolved: the  *)
(* store calls of each section keep their order, those of different        *)
(* sections interleave freely.  frame["at_personal"], frame["at_experience"]*)
(* and frame["at_salary"] are the positions of the tasks.                  *)
(***************************************************************************)
\* the task of `section` moves to `at`: the run returns when all are done
SectionStep(fr, section, at, call) ==
    LET moved == Put(fr, section, at) IN
    Step(IF /\ moved["at_personal"] = "done"
            /\ moved["at_experience"] = "done"
            /\ moved["at_salary"] = "done"
         THEN "returned" ELSE "d_sections",
         moved, <<Call(call, TRUE)>>)

\* line 45
SectionPersonalFirst ==
    /\ pc = "d_sections"
    /\ frame["at_personal"] = "first"
    /\ UNCHANGED <<storeVars, responded>>
    /\ SectionStep(Put(frame, "personal_record",
                       TableFirst(applicants, personal, applicant_id_to_process)),
                   "at_personal", "write", "d_personal_first")

\* faulty variant of SectionPersonalWrite: the lookups of the personal and of the
\* salary section share one variable, so that the write uses the record the
\* salary lookup found when that lookup came in between
SectionPersonalWriteSharedRecord ==
    /\ pc = "d_sections"
    /\ frame["at_personal"] = "write"
    /\ LET personal_data == Reattach(frame["applicant_data"]["personal"],
                                     frame["applicant_record"].id)
           record == IF "salary_record" \in DOMAIN frame THEN frame["salary_record"]
                     ELSE frame["personal_record"]
       IN  /\ personal' = Upsert(personal, record, personal_data, nextId)
           /\ nextId' = IF Len(personal') > Len(personal) THEN nextId + 1 ELSE nextId
    /\ UNCHANGED <<applicants, experience, salary, leads, responded>>
    /\ SectionStep(frame, "at_personal", "done", "d_personal_write")

\* lines 46-53
SectionPersonalWrite ==
    /\ pc = "d_sections"
    /\ frame["at_personal"] = "write"
    /\ LET personal_data == Reattach(frame["applicant_data"]["personal"],
                                     frame["applicant_record"].id)
       IN  /\ personal' = Upsert(personal, frame["personal_record"], personal_data, nextId)
           /\ nextId' = IF Len(personal') > Len(personal) THEN nextId + 1 ELSE nextId
    /\ UNCHANGED <<applicants, experience, salary, leads, responded>>
    /\ SectionStep(frame, "at_personal", "done", "d_personal_write")

\* lines 58-59
SectionExperienceAll ==
    /\ pc = "d_sections"
    /\ frame["at_experience"] = "all"
    /\ UNCHANGED <<storeVars, responded>>
    /\ LET existing_exp_records ==
               TableAll(applicants, experience, applicant_id_to_process)
       IN  SectionStep(Put(frame, "existing_exp_records", existing_exp_records),
                       "at_experience",
                       IF existing_exp_records # <<>> THEN "delete" ELSE "create",
                       "d_experience_all")

\* lines 60-62
SectionExperienceDelete ==
    /\ pc = "d_sections"
    /\ frame["at_experience"] = "delete"
    /\ LET record_ids_to_delete ==
               [i \in 1..Len(frame["existing_exp_records"]) |->
                    frame["existing_exp_records"][i].id]
       IN  experience' = TableBatchDelete(experience, record_ids_to_delete)
    /\ UNCHANGED <<applicants, personal, salary, leads, nextId, responded>>
    /\ SectionStep(frame, "at_experience", "create", "d_experience_delete")

\* lines 64-70
SectionExperienceCreate ==
    /\ pc = "d_sections"
    /\ frame["at_experience"] = "create"
    /\ LET experience_data == frame["applicant_data"]["experience"]
           records_to_create ==
               [i \in 1..Len(experience_data) |->
                    Reattach(experience_data[i], frame["applicant_record"].id)]
       IN  /\ experience' = TableBatchCreate(experience, records_to_create, nextId)
           /\ nextId' = nextId + Len(records_to_create)
    /\ UNCHANGED <<applicants, personal, salary, leads, responded>>
    /\ SectionStep(frame, "at_experience", "done", "d_experience_create")

\* line 75
SectionSalaryFirst ==
    /\ pc = "d_sections"
    /\ frame["at_salary"] = "first"
    /\ UNCHANGED <<storeVars, responded>>
    /\ SectionStep(Put(frame, "salary_record",
                       TableFirst(applicants, salary, applicant_id_to_process)),
                   "at_salary", "write", "d_salary_first")

\* lines 76-83
SectionSalaryWrite ==
    /\ pc = "d_sections"
    /\ frame["at_salary"] = "write"
    /\ LET salary_data == Reattach(frame["applicant_data"]["salary"],
                                   frame["applicant_record"].id)
       IN  /\ salary' = Upsert(salary, frame["salary_record"], salary_data, nextId)
           /\ nextId' = IF Len(salary') > Len(salary) THEN nextId + 1 ELSE nextId
    /\ UNCHANGED <<applicants, personal, experience, leads, responded>>
    /\ SectionStep(frame, "at_salary", "done", "d_salary_write")

\* the store of an initial state of Spec, in which decompress_applicant_data
\* ("1") has resolved the root record and parsed its Compressed JSON, the
\* text of an object (lines 28-40); a task whose section is empty is done
InitSections ==
    /\ \E doc \in Documents, text \in CompressedTexts :
         /\ text.kind = "object"
         /\ applicants =
              << [id |-> 1,
                  fields |-> [k \in {"Applicant ID", "Compressed JSON"} |->
                                 IF k = "Applicant ID" THEN "1" ELSE text]],
                 [id |-> 2, fields |-> [k \in {"Applicant ID"} |-> "2"]] >>
         /\ personal =
              <<[id |-> 1, fields |-> Linked(Fields({"Location"}, [Location |-> US]), 2)]>>
              \o (IF Truthy(doc.personal)
                  THEN <<[id |-> 3, fields |-> Linked(doc.personal, 1)]>> ELSE <<>>)
         /\ salary =
              IF Truthy(doc.salary)
              THEN <<[id |-> 4, fields |-> Linked(doc.salary, 1)]>> ELSE <<>>
         /\ experience =
              <<[id |-> 2, fields |-> Linked(AcmeJob, 2)]>>
              \o [i \in 1..Len(doc.experience) |->
                      [id |-> 4 + i, fields |-> Linked(doc.experience[i], 1)]]
         /\ nextId = 5 + Len(doc.experience)
         /\ LET applicant_data == ObjectOf(text.members) IN
            /\ DecompressNext(applicant_data, 1) # "returned"
            /\ frame =
                 [k \in {"applicant_record", "applicant_data", "at_personal",
                         "at_experience", "at_salary"} |->
                    IF k = "applicant_record" THEN applicants[1]
                    ELSE IF k = "applicant_data" THEN applicant_data
                    ELSE IF k = "at_personal"
                        THEN (IF Truthy(Get(applicant_data, "personal", EmptyMap))
                              THEN "first" ELSE "done")
                    ELSE IF k = "at_experience"
                        THEN (IF Get(applicant_data, "experience", <<>>) # <<>>
                              THEN "all" ELSE "done")
                    ELSE (IF Truthy(Get(applicant_data, "salary", EmptyMap))
                          THEN "first" ELSE "done")]
    /\ leads = <<>>
    /\ now = [y |-> 2023, m |-> 6]
    /\ pc = "d_sections"
    /\ run = [op |-> "sections", arg |-> "1", n |-> 1, status |-> "running",
              trace |-> <<Call("d_root", TRUE)>>, done |-> {"d_root"}, had |-> {},
              before |-> [applicants |-> applicants, personal |-> personal,
                          experience |-> experience, salary |-> salary, leads |-> <<>>],
              after |-> <<>>]
    /\ prev = NoRun
    /\ responded = {}

NextSections ==
    \/ SectionPersonalFirst
    \/ SectionPersonalWrite
    \/ SectionExperienceAll
    \/ SectionExperienceDelete
    \/ SectionExperienceCreate
    \/ SectionSalaryFirst
    \/ SectionSalaryWrite

SpecSections == InitSections /\ [][NextSections]_vars


(***************************************************************************)
(* parse_llm_response called on its own  (src/main.py:87-114): the         *)
(* specification of one call, one action for each iteration of its loop.   *)
(***************************************************************************)
\* largest number of lines of a response text
MaxLines == 4

\* lines 89-91
ParseSplit ==
    /\ pc = "p_split"
    /\ UNCHANGED <<storeVars, responded>>
    /\ Step("p_loop",
            [k \in {"lines", "parsed_data", "current_section"} |->
                IF k = "lines" THEN SplitLines(Strip(JoinLines(frame["response_lines"])))
                ELSE IF k = "parsed_data" THEN EmptyMap
                ELSE "none"],
            <<>>)

\* lines 93-109: one iteration of the loop
ParseLoop ==
    /\ pc = "p_loop"
    /\ frame["lines"] # <<>>
    /\ UNCHANGED <<storeVars, responded>>
    /\ LET st == ParseLine([parsed_data |-> frame["parsed_data"],
                            current_section |-> frame["current_section"]],
                           Head(frame["lines"]))
       IN  Step("p_loop",
                [k \in {"lines", "parsed_data", "current_section"} |->
                    IF k = "lines" THEN Tail(frame["lines"])
                    ELSE IF k = "parsed_data" THEN st.parsed_data
                    ELSE st.current_section],
                <<>>)

\* lines 111-114: the loop is over; frame["parsed_data"] is what is returned
ParseFinish ==
    /\ pc = "p_loop"
    /\ frame["lines"] = <<>>
    /\ UNCHANGED <<storeVars, responded>>
    /\ LET parsed_data == frame["parsed_data"] IN
       Step("p_done",
            Put(frame, "parsed_data",
                IF "LLM Follow-Ups" \in DOMAIN parsed_data
                THEN Put(parsed_data, "LLM Follow-Ups", Strip(parsed_data["LLM Follow-Ups"]))
                ELSE parsed_data),
            <<>>)

\* the lines a response text is made of
SummaryLine == <<"Summary:", " ", "Strong candidate">>
ScoreLine == <<"Score:", " ", "8">>
FollowUpsLine == <<"Follow-Ups:", " ", "- Ask about visa status">>
ContinuationLine == <<"- Ask about notice period">>
IssuesLine == <<"Issues:", " ", "None">>
BadScoreLine == <<"Score:", " ", "n/a">>

LineInputs ==
    {SummaryLine, ScoreLine, FollowUpsLine, ContinuationLine, IssuesLine, BadScoreLine,
     <<>>}

\* the response texts, as their lines
ResponseInputs(n) == UNION { [1..k -> LineInputs] : k \in 0..n }

\* parse_llm_response(response_text) has been called
InitParse ==
    /\ applicants = <<>>
    /\ personal = <<>>
    /\ experience = <<>>
    /\ salary = <<>>
    /\ leads = <<>>
    /\ nextId = 1
    /\ now = [y |-> 2023, m |-> 6]
    /\ pc = "p_split"
    /\ \E response_lines \in ResponseInputs(MaxLines) :
         /\ frame = [k \in {"response_lines"} |-> response_lines]
         /\ run = [op |-> "parse", arg |-> response_lines, n |-> 1,
                   status |-> "running", trace |-> <<>>, done |-> {}, had |-> {},
                   before |-> <<>>, after |-> <<>>]
    /\ prev = NoRun
    /\ responded = {}

NextParse ==
    \/ ParseSplit
    \/ ParseLoop
    \/ ParseFinish

SpecParse == InitParse /\ [][NextParse]_vars


(***************************************************************************)
(* Vocabulary of the properties.                                           *)
(***************************************************************************)
\* the fields of a record or JSON object without the back-reference and
\* the identifier
Content(fields) == Pop(Pop(fields, "Applicant"), "Id")

ContentsOf(records) == [i \in 1..Len(records) |-> Content(records[i].fields)]

\* what the Personal Details (Salary Preferences) records of one applicant
\* hold: nothing, when there is no record
Carried(records) == IF records = <<>> THEN EmptyMap ELSE Content(records[1].fields)

\* the same Personal and Salary fields and the same set of Work Experience
\* records, back-reference and identifiers aside
Equivalent(c1, c2) ==
    /\ ContentsOf(c1.personal) = ContentsOf(c2.personal)
    /\ ContentsOf(c1.salary) = ContentsOf(c2.salary)
    /\ Range(ContentsOf(c1.experience)) = Range(ContentsOf(c2.experience))

\* the Applicants record of x in store st (NoRecord when there is none)
RootOf(st, x) == ApplicantsFirst(st.applicants, x)

\* the Compressed JSON of x in store st is the text of an object
HasDocument(st, x) ==
    /\ RootOf(st, x).id # 0
    /\ "Compressed JSON" \in DOMAIN RootOf(st, x).fields
    /\ RootOf(st, x).fields["Compressed JSON"].kind = "object"

\* that object
DocumentOf(st, x) == ObjectOf(RootOf(st, x).fields["Compressed JSON"].members)

\* the operation `op` has ended, in the way `how`
Ended(r, op, how) == r.op = op /\ r.status \in how

\* the calls of the trace that are among `names`
CallsIn(trace, names) == SelectSeq(trace, LAMBDA e : e.call \in names)

LlmCalls == {"l_generate", "l_update", "sleep"}

(***************************************************************************)
(* C1  Round trip: when compress_evaluate_enrich has written the Compressed*)
(* JSON of an applicant and decompress_applicant_data then runs to its end *)
(* for the same applicant, the applicant's Personal and Salary fields are  *)
(* the ones before the compression and its Work Experience records are the*)
(* same set, the back-reference and the identifier fields aside.           *)
(***************************************************************************)
RoundTripCase ==
    /\ pc = "idle"
    /\ Ended(run, "decompress", {"returned"})
    /\ Ended(prev, "compress", {"returned"})
    /\ "c_persist" \in prev.done
    /\ prev.arg = run.arg

C1_RoundTrip ==
    RoundTripCase =>
        Equivalent(ChildrenOf(run.after, run.arg), ChildrenOf(prev.before, run.arg))

\* a round trip that rewrote two Work Experience records and both upserts
C1_Witness ==
    /\ RoundTripCase
    /\ {"d_personal_write", "d_experience_delete", "d_experience_create",
        "d_salary_write"} \subseteq run.done
    /\ Len(ChildrenOf(run.after, run.arg).experience) = 2
    /\ C1_RoundTrip

(***************************************************************************)
(* C2  Idempotence of decompression: after two decompressions in           *)
(* succession of the same Compressed JSON the child records are those      *)
(* after the first, and the applicant has as many Work Experience records  *)
(* as the JSON experience array has entries.                               *)
(***************************************************************************)
TwiceCase ==
    /\ pc = "idle"
    /\ Ended(run, "decompress", {"returned"})
    /\ Ended(prev, "decompress", {"returned"})
    /\ prev.arg = run.arg
    /\ HasDocument(run.before, run.arg)

C2_DecompressTwice ==
    TwiceCase =>
        /\ Equivalent(ChildrenOf(run.after, run.arg), ChildrenOf(prev.after, run.arg))
        /\ Len(ChildrenOf(run.after, run.arg).experience)
             = Len(Get(DocumentOf(run.before, run.arg), "experience", <<>>))

(***************************************************************************)
(* C3  Full overwrite: after a decompression has run to its end on a       *)
(* parseable Compressed JSON, the Work Experience records are exactly the  *)
(* entries of the experience array and the Personal and Salary records     *)
(* hold exactly the personal and salary objects.                           *)
(***************************************************************************)
DecompressedCase ==
    /\ pc = "idle"
    /\ Ended(run, "decompress", {"returned"})
    /\ HasDocument(run.before, run.arg)

C3_FullOverwrite ==
    DecompressedCase =>
        LET doc == DocumentOf(run.before, run.arg)
            now_ == ChildrenOf(run.after, run.arg)
            entries == Get(doc, "experience", <<>>)
        IN  /\ ContentsOf(now_.experience) = [i \in 1..Len(entries) |-> Content(entries[i])]
            /\ Carried(now_.personal) = Content(Get(doc, "personal", EmptyMap))
            /\ Carried(now_.salary) = Content(Get(doc, "salary", EmptyMap))

(***************************************************************************)
(* C4  At most one Personal Details record and at most one Salary          *)
(* Preferences record per applicant, in every state.                       *)
(***************************************************************************)
C4_AtMostOne ==
    \A x \in {"1", "2"} :
        /\ Len(ChildrenOf(Store, x).personal) <= 1
        /\ Len(ChildrenOf(Store, x).salary) <= 1

\* a decompression that created both records is followed by one that
\* found and updated them
C4_Witness ==
    /\ pc = "idle"
    /\ Ended(run, "decompress", {"returned"})
    /\ Ended(prev, "decompress", {"returned"})
    /\ prev.arg = run.arg
    /\ {"d_personal_write", "d_salary_write"} \subseteq run.done
    /\ ChildrenOf(prev.before, run.arg).personal = <<>>
    /\ ChildrenOf(prev.before, run.arg).salary = <<>>
    /\ Len(ChildrenOf(Store, run.arg).personal) = 1
    /\ Len(ChildrenOf(Store, run.arg).salary) = 1

(***************************************************************************)
(* C5  Atomic replacement: whenever a decompression has ended, normally or *)
(* by an exception of the store, the applicant's Work Experience records   *)
(* are the complete set from before it or the complete set of the JSON.    *)
(***************************************************************************)
C5_AtomicReplace ==
    (/\ pc = "idle"
     /\ Ended(run, "decompress", {"returned", "raised"})
     /\ HasDocument(run.before, run.arg))
    =>
        LET entries == Get(DocumentOf(run.before, run.arg), "experience", <<>>) IN
        \/ ChildrenOf(run.after, run.arg).experience
             = ChildrenOf(run.before, run.arg).experience
        \/ ContentsOf(ChildrenOf(run.after, run.arg).experience)
             = [i \in 1..Len(entries) |-> Content(entries[i])]


(***************************************************************************)
(* C6  Guard of evaluate_with_llm: when the Applicants record handed to it *)
(* (the one fetched at the start of the run) carries an LLM Score, the run *)
(* makes no generation call and no update of LLM fields.                   *)
(***************************************************************************)
C6_GuardSkips ==
    (/\ run.op = "compress"
     /\ "LLM Score" \in DOMAIN RootOf(run.before, run.arg).fields)
    => CallsIn(run.trace, {"l_generate", "l_update"}) = <<>>

(***************************************************************************)
(* C7  At most one enrichment: a run for an applicant for which an earlier *)
(* run received a generation response makes no generation call.            *)
(***************************************************************************)
C7_OneEnrichment ==
    (run.op = "compress" /\ run.arg \in run.had)
    => CallsIn(run.trace, {"l_generate"}) = <<>>

(***************************************************************************)
(* C8  Retry and backoff: a run of evaluate_with_llm in which every        *)
(* generation call failed made exactly three calls, slept 1 second after   *)
(* the first and 2 seconds after the second and not after the third, wrote *)
(* no LLM field, returned without raising, and left the record without an  *)
(* LLM Score, so that the next run enters the retry loop again.            *)
(***************************************************************************)
AllGenerationsFailed ==
    /\ pc = "idle"
    /\ Ended(run, "compress", {"returned", "raised"})
    /\ CallsIn(run.trace, {"l_generate"}) # <<>>
    /\ \A e \in Range(CallsIn(run.trace, {"l_generate"})) : ~e.ok

CompressCalls == {"c_root", "c_personal", "c_experience", "c_salary", "c_persist", "c_lead"}

\* the JSON object compress_evaluate_enrich builds for x from store st
JsonOfChildren(st, x) ==
    BuildJson(TableFirst(st.applicants, st.personal, x),
              TableAll(st.applicants, st.experience, x),
              TableFirst(st.applicants, st.salary, x))

C9_NeverPropagates ==
    run.op = "compress" =>
        /\ run.status # "raised"
        /\ Len(run.trace) <= 14
        /\ pc # "idle" => ENABLED Next
        /\ \A i \in 1..Len(run.trace) :
             (run.trace[i].call \in CompressCalls /\ ~run.trace[i].ok)
                 => (i = Len(run.trace) /\ pc = "idle")
        /\ "c_persist" \in run.done =>
             RootOf(Store, run.arg).fields["Compressed JSON"]
                 = json_dumps(JsonOfChildren(run.before, run.arg))
        /\ "c_lead" \in run.done => Len(leads) = Len(run.before.leads) + 1

\* the creation of the lead failed after the Compressed JSON was written
C9_Witness ==
    /\ pc = "idle"
    /\ Ended(run, "compress", {"returned"})
    /\ "c_persist" \in run.done
    /\ run.trace[Len(run.trace)] = Call("c_lead", FALSE)
    /\ RootOf(Store, run.arg).fields["Compressed JSON"]
         = json_dumps(JsonOfChildren(run.before, run.arg))

(***************************************************************************)
(* C10  Stage order of one run of compress_evaluate_enrich: root fetch,    *)
(* child fetches, write of the Compressed JSON, creation of the lead,      *)
(* generation calls, in this order; every store stage at most once; a      *)
(* successful write of LLM fields is the last call; the run ends returned. *)
(***************************************************************************)
StageOf(call) ==
    IF call = "c_root" THEN 1
    ELSE IF call \in {"c_personal", "c_experience", "c_salary"} THEN 2
    ELSE IF call = "c_persist" THEN 3
    ELSE IF call = "c_lead" THEN 4
    ELSE 5

C10_StageOrder ==
    run.op = "compress" =>
        LET t == run.trace IN
        /\ \A i, j \in 1..Len(t) : i < j => StageOf(t[i].call) <= StageOf(t[j].call)
        /\ \A i, j \in 1..Len(t) :
             (i # j /\ t[i].call \in CompressCalls) => t[i].call # t[j].call
        /\ \A i \in 1..Len(t) :
             (t[i].call \in CompressCalls \ {"c_root"}) => t[i - 1].ok
        /\ \A i \in 1..Len(t) :
             (t[i].call = "l_update" /\ t[i].ok) => (i = Len(t) /\ pc = "idle")
        /\ pc = "idle" => run.status = "returned"

\* a run through every stage
C10_Witness ==
    /\ pc = "idle"
    /\ Ended(run, "compress", {"returned"})
    /\ [i \in 1..Len(run.trace) |-> run.trace[i].call]
         = <<"c_root", "c_personal", "c_experience", "c_salary", "c_persist", "c_lead",
             "l_generate", "l_update">>
    /\ \A i \in 1..Len(run.trace) : run.trace[i].ok

(***************************************************************************)
(* C11  Re-running the orchestrator: two runs of compress_evaluate_enrich  *)
(* in succession for the same applicant, no call to the store failing and  *)
(* the generation service answering the second run as it answered the      *)
(* first, leave the whole store (Applicants, child tables, Shortlisted      *)
(* Leads) as the first run left it.                                        *)
(***************************************************************************)
RerunCase ==
    /\ pc = "idle"
    /\ Ended(run, "compress", {"returned"})
    /\ Ended(prev, "compress", {"returned"})
    /\ prev.arg = run.arg
    /\ \A i \in 1..Len(prev.trace) : prev.trace[i].ok
    /\ \A i \in 1..Len(run.trace) : run.trace[i].ok
    /\ CallsIn(run.trace, {"l_generate"}) \in {<<>>, prev.trace}

IsPresent(obj, key) == key \in DOMAIN obj /\ obj[key] # NullValue

CompensationPasses(salary_data) ==
    /\ IsPresent(salary_data, "Preferred Rate")
    /\ salary_data["Preferred Rate"].num <= 100
    /\ IsPresent(salary_data, "Availability (hrs/wk)")
    /\ salary_data["Availability (hrs/wk)"].num >= 20

LeadsCreated == Len(leads) - Len(run.before.leads)

C12_ShortlistRules ==
    /\ (run.op = "shortlist" /\ pc \in {"s_decide", "s_create"}) =>
         /\ frame["compensation_ok"] = CompensationPasses(run.arg["salary"])
         /\ LeadsCreated = 0
    /\ (pc = "idle" /\ Ended(run, "shortlist", {"returned"})) =>
         LeadsCreated =
            IF /\ experience_ok(run.arg["experience"], now)
               /\ CompensationPasses(run.arg["salary"])
               /\ location_ok(run.arg["personal"])
            THEN 1 ELSE 0
    /\ (pc = "idle" /\ Ended(run, "shortlist", {"raised"})) => LeadsCreated = 0

\* a lead was created for the document with 4.0 years, rate 80,
\* availability 25 and location United States
C12_Witness ==
    /\ pc = "idle"
    /\ Ended(run, "shortlist", {"returned"})
    /\ LeadsCreated = 1
    /\ run.arg["salary"]["Preferred Rate"] = Num(80)
    /\ run.arg["salary"]["Availability (hrs/wk)"] = Num(25)
    /\ run.arg["personal"]["Location"] = UnitedStates
    /\ total_months(run.arg["experience"], now) = 48
    /\ ~worked_at_tier_1(run.arg["experience"])
    /\ leads[1].fields["Score Reason"].exp = 40

(***************************************************************************)
(* C13  Experience rule: the total computed by evaluate_shortlisting is    *)
(* the sum, over the entries with a parseable Start, of the whole months   *)
(* from Start to End, or to the current date when End is absent or null;   *)
(* entries without a parseable Start add nothing; the rule passes exactly  *)
(* when the total is at least 48 months or the lower-cased Company of some *)
(* entry is in the tier-1 list.  The entries 2019-01-01 to 2021-01-01 and  *)
(* 2021-06-01 to null give, in June 2023, 48 months and pass.              *)
(***************************************************************************)
WholeMonths(from, to) == (to.y - from.y) * 12 + (to.m - from.m)

HasStart(job) == "Start" \in DOMAIN job /\ Parses(job["Start"])

EndOf(job, today) ==
    IF "End" \notin DOMAIN job \/ job["End"] = NullValue THEN today ELSE job["End"]

\* the sum over the first k entries
RECURSIVE MonthsOfFirst(_, _, _)
MonthsOfFirst(entries, k, today) ==
    IF k = 0 THEN 0
    ELSE MonthsOfFirst(entries, k - 1, today)
         + (IF HasStart(entries[k])
            THEN WholeMonths(entries[k]["Start"], EndOf(entries[k], today)) ELSE 0)

SomeTier1(entries) ==
    \E i \in 1..Len(entries) :
        "Company" \in DOMAIN entries[i] /\ Lower(entries[i]["Company"]) \in TIER_1_COMPANIES

ExampleEntries ==
    << Fields({"Company", "Start", "End"},
              [Company |-> Acme, Start |-> DateText(2019, 1, 1), End |-> DateText(2021, 1, 1)]),
       Fields({"Company", "Start", "End"},
              [Company |-> Acme, Start |-> DateText(2021, 6, 1), End |-> NullValue]) >>

C13_ExperienceRule ==
    (run.op = "shortlist" /\ pc \in {"s_decide", "s_create"}) =>
        LET entries == run.arg["experience"]
            total == MonthsOfFirst(entries, Len(entries), now)
        IN  /\ frame["total_months"] = total
            /\ frame["experience_ok"] = (total >= 48 \/ SomeTier1(entries))
            /\ entries = ExampleEntries =>
                 (frame["total_months"] = 48 /\ frame["experience_ok"])

\* the rules have been computed for the two entries of the example
C13_Witness ==
    /\ run.op = "shortlist"
    /\ pc = "s_decide"
    /\ run.arg["experience"] = ExampleEntries
    /\ frame["total_months"] = 48
    /\ ~frame["worked_at_tier_1"]
    /\ frame["experience_ok"]

(***************************************************************************)
(* C14  NotFound and MalformedData: an operation whose root lookup finds  *)
(* no Applicants record returns with the store as it was, having made no   *)
(* other call; a decompression that finds the record without a Compressed  *)
(* JSON field, or with one that is not the text of a JSON object, returns  *)
(* with the store as it was.  No exception escapes in either case.         *)
(***************************************************************************)
\* the root lookup of the run has been made and did not raise
LookedUp == run.trace # <<>> /\ run.trace[1].ok

NotFoundCase ==
    /\ pc = "idle"
    /\ run.op \in {"decompress", "compress"}
    /\ LookedUp
    /\ RootOf(run.before, run.arg).id = 0

MalformedCase ==
    /\ pc = "idle"
    /\ run.op = "decompress"
    /\ LookedUp
    /\ RootOf(run.before, run.arg).id # 0
    /\ ~HasDocument(run.before, run.arg)

C14_EarlyReturn ==
    /\ NotFoundCase =>
         /\ run.status = "returned"
         /\ Len(run.trace) = 1
         /\ run.after = run.before
    /\ MalformedCase =>
         /\ run.status = "returned"
         /\ Len(run.trace) = 1
         /\ run.after = run.before

(***************************************************************************)
(* C15  Independence of the sections: when the personal, experience and    *)
(* salary sections of a decompression have run as three tasks, their store *)
(* calls interleaved in any way, the tables hold what they hold after the  *)
(* sections have run one after the other in the order personal,            *)
(* experience, salary (the record ids, which the store assigns, aside).    *)
(***************************************************************************)
\* the table after the whole personal (salary) section on `table`
UpsertSection(apps, table, data, rec, x, newId) ==
    IF ~Truthy(data) THEN table
    ELSE Upsert(table, TableFirst(apps, table, x), Reattach(data, rec.id), newId)

\* the Work Experience table after the whole experience section
ReplaceSection(apps, table, data, rec, x, newId) ==
    IF data = <<>> THEN table
    ELSE LET existing == TableAll(apps, table, x)
             kept == TableBatchDelete(table, [i \in 1..Len(existing) |-> existing[i].id])
         IN  TableBatchCreate(kept, [i \in 1..Len(data) |-> Reattach(data[i], rec.id)], newId)

\* the store after the sections in the order personal, experience, salary
InOrder(st, x) ==
    LET rec == RootOf(st, x)
        data == DocumentOf(st, x)
        p == UpsertSection(st.applicants, st.personal, Get(data, "personal", EmptyMap),
                           rec, x, 100)
        e == ReplaceSection(st.applicants, st.experience, Get(data, "experience", <<>>),
                            rec, x, 200)
        sal == UpsertSection(st.applicants, st.salary, Get(data, "salary", EmptyMap),
                             rec, x, 300)
    IN  [applicants |-> st.applicants, personal |-> p, experience |-> e,
         salary |-> sal, leads |-> st.leads]

\* the records of the tables in their order, without their ids
FieldsOf(table) == [i \in 1..Len(table) |-> table[i].fields]

SameButIds(s1, s2) ==
    /\ s1.applicants = s2.applicants
    /\ s1.leads = s2.leads
    /\ FieldsOf(s1.personal) = FieldsOf(s2.personal)
    /\ FieldsOf(s1.experience) = FieldsOf(s2.experience)
    /\ FieldsOf(s1.salary) = FieldsOf(s2.salary)

C15_SectionsIndependent ==
    (pc = "idle" /\ Ended(run, "sections", {"returned"})) =>
        SameButIds(run.after, InOrder(run.before, run.arg))

\* the salary section ran first, the experience section between the lookup
\* and the write of the personal section, and every section wrote
C15_Witness ==
    /\ pc = "idle"
    /\ Ended(run, "sections", {"returned"})
    /\ [i \in 1..Len(run.trace) |-> run.trace[i].call]
         = <<"d_root", "d_salary_first", "d_personal_first", "d_experience_all",
             "d_salary_write", "d_experience_delete", "d_experience_create",
             "d_personal_write">>
    /\ run.after.personal # run.before.personal
    /\ run.after.salary # run.before.salary
    /\ SameButIds(run.after, InOrder(run.before, run.arg))

(***************************************************************************)
(* C16  Follow-ups of parse_llm_response: from the first line that begins  *)
(* with Issues: or Follow-Ups: on, every line that is not empty (and does  *)
(* not itself carry the Summary: or Score: label) is appended to LLM       *)
(* Follow-Ups, whatever the order of the labelled lines;                   *)
(* the text Summary, Score, Follow-Ups, continuation gives the summary,    *)
(* the integer score and the Follow-Ups line with the continuation.        *)
(***************************************************************************)
StartsFollowUps(line) == StartsWith(line, "Issues:") \/ StartsWith(line, "Follow-Ups:")

\* the line carries the Summary: or the Score: label, which have fields of
\* their own
OtherLabel(line) == StartsWith(line, "Summary:") \/ StartsWith(line, "Score:")

\* the lines from the k-th on that are not empty and carry no other label,
\* each followed by "\n"
RECURSIVE Accumulated(_, _)
Accumulated(lines, k) ==
    IF k > Len(lines) THEN <<>>
    ELSE (IF Strip(lines[k]) # <<>> /\ ~OtherLabel(lines[k])
          THEN lines[k] \o <<"\n">> ELSE <<>>)
         \o Accumulated(lines, k + 1)

FirstFollowUps(lines) ==
    CHOOSE k \in 1..Len(lines) :
        StartsFollowUps(lines[k]) /\ \A j \in 1..(k - 1) : ~StartsFollowUps(lines[j])

C16_FollowUps ==
    (run.op = "parse" /\ pc = "p_done") =>
        LET lines == run.arg
            parsed_data == frame["parsed_data"]
        IN  /\ (\E k \in 1..Len(lines) : StartsFollowUps(lines[k])) =>
                 /\ "LLM Follow-Ups" \in DOMAIN parsed_data
                 /\ parsed_data["LLM Follow-Ups"]
                      = Strip(Accumulated(lines, FirstFollowUps(lines)))
            /\ lines = <<SummaryLine, ScoreLine, FollowUpsLine, ContinuationLine>> =>
                 /\ DOMAIN parsed_data = {"LLM Summary", "LLM Score", "LLM Follow-Ups"}
                 /\ parsed_data["LLM Summary"] = <<"Strong candidate">>
                 /\ parsed_data["LLM Score"] = 8
                 /\ parsed_data["LLM Follow-Ups"]
                      = FollowUpsLine \o <<"\n">> \o ContinuationLine

(***************************************************************************)
(* C17  After a generation call of evaluate_with_llm has returned a        *)
(* response, the run makes no further generation call; when the response   *)
(* parses to no field it makes no update of the Applicants record, and     *)
(* otherwise exactly one, which writes exactly the parsed fields, all      *)
(* among LLM Summary, LLM Score and LLM Follow-Ups.                        *)
(***************************************************************************)
LlmFields == {"LLM Summary", "LLM Score", "LLM Follow-Ups"}

\* the calls named `name` after the i-th call of the trace
CallsAfter(trace, i, name) ==
    CallsIn(SubSeq(trace, i + 1, Len(trace)), {name})

\* the fields of the root record once compress_evaluate_enrich has written
\* the Compressed JSON and then `parsed`
RootWith(parsed) ==
    Merge(Put(RootOf(run.before, run.arg).fields, "Compressed JSON",
              json_dumps(JsonOfChildren(run.before, run.arg))),
          parsed)

C17_OneUpdate ==
    run.op = "compress" =>
        \A i \in 1..Len(run.trace) :
            (run.trace[i].call = "l_generate" /\ run.trace[i].ok) =>
                /\ CallsAfter(run.trace, i, "l_generate") = <<>>
                /\ Len(CallsAfter(run.trace, i, "l_update")) <= 1
                /\ (pc = "idle" /\ "text" \in DOMAIN run.trace[i]) =>
                     LET parsed == parse_llm_response(run.trace[i].text) IN
                     /\ DOMAIN parsed \subseteq LlmFields
                     /\ Len(CallsAfter(run.trace, i, "l_update"))
                          = IF parsed = EmptyMap THEN 0 ELSE 1
                     /\ RootOf(Store, run.arg).fields
                          = RootWith(IF "l_update" \in run.done THEN parsed ELSE EmptyMap)

(***************************************************************************)
(* C18  Bound on one run of evaluate_with_llm, whatever calls of the       *)
(* generation service and updates of the store fail: at most three         *)
(* generation calls, at most one successful update of the Applicants       *)
(* record; the loop ends with the first attempt whose generation call and  *)
(* update, if there is one, succeed; the run returns and never raises.     *)
(***************************************************************************)
C18_LlmBound ==
    run.op = "compress" =>
        LET t == run.trace IN
        /\ Len(CallsIn(t, {"l_generate"})) <= max_retries
        /\ Len(SelectSeq(t, LAMBDA e : e.call = "l_update" /\ e.ok)) <= 1
        /\ \A i \in 1..Len(t) :
             /\ (t[i].call = "l_update" /\ t[i].ok) => (i = Len(t) /\ pc = "idle")
             /\ (t[i].call = "l_generate" /\ t[i].ok) =>
                  IF i = Len(t) THEN pc \in {"l_update", "idle"}
                  ELSE t[i + 1].call = "l_update"
             /\ (t[i].call \in {"l_generate", "l_update"} /\ ~t[i].ok /\ i < Len(t)) =>
                  t[i + 1].call = "sleep"
        /\ pc \in {"l_generate", "l_update"} => ENABLED Next
        /\ run.status # "raised"
        /\ pc = "idle" => run.status = "returned"

\* the first generation call failed, the update after the second failed,
\* the third attempt succeeded
C18_Witness ==
    /\ pc = "idle"
    /\ Ended(run, "compress", {"returned"})
    /\ [i \in 1..Len(CallsIn(run.trace, LlmCalls)) |->
            <<CallsIn(run.trace, LlmCalls)[i].call, CallsIn(run.trace, LlmCalls)[i].ok>>]
         = << <<"l_generate", FALSE>>, <<"sleep", TRUE>>,
              <<"l_generate", TRUE>>, <<"l_update", FALSE>>, <<"sleep", TRUE>>,
              <<"l_generate", TRUE>>, <<"l_update", TRUE>> >>

(***************************************************************************)
(* C19  Frame: a run of compress_evaluate_enrich leaves the Personal       *)
(* Details, Work Experience and Salary Preferences tables as they were,    *)
(* changes no Applicants record but the one it was called for, and only    *)
(* appends to Shortlisted Leads; a run of decompress_applicant_data leaves *)
(* the Applicants and Shortlisted Leads tables as they were and every      *)
(* child record of another applicant; no run changes or removes a lead     *)
(* that existed before it.                                                 *)
(***************************************************************************)
\* the records of `table` that are not linked to applicant x
OfOthers(apps, table, x) == SelectSeq(table, LAMBDA r : ~LinkedTo(apps, r, x))

C19_Frame ==
    /\ run.op = "compress" =>
         /\ personal = run.before.personal
         /\ experience = run.before.experience
         /\ salary = run.before.salary
         /\ Len(applicants) = Len(run.before.applicants)
         /\ \A i \in 1..Len(applicants) :
              \/ applicants[i] = run.before.applicants[i]
              \/ /\ applicants[i].id = run.before.applicants[i].id
                 /\ applicants[i].id = RootOf(run.before, run.arg).id
    /\ run.op = "decompress" =>
         /\ applicants = run.before.applicants
         /\ leads = run.before.leads
         /\ OfOthers(applicants, personal, run.arg)
              = OfOthers(applicants, run.before.personal, run.arg)
         /\ OfOthers(applicants, experience, run.arg)
              = OfOthers(applicants, run.before.experience, run.arg)
         /\ OfOthers(applicants, salary, run.arg)
              = OfOthers(applicants, run.before.salary, run.arg)
    /\ run.op \in {"compress", "decompress"} =>
         /\ Len(leads) >= Len(run.before.leads)
         /\ SubSeq(leads, 1, Len(run.before.leads)) = run.before.leads

\* a decompression has rewritten the three sections of an applicant after
\* a compression that created a lead and wrote LLM fields
C19_Witness ==
    /\ pc = "idle"
    /\ Ended(run, "decompress", {"returned"})
    /\ {"d_personal_write", "d_experience_delete", "d_experience_create",
        "d_salary_write"} \subseteq run.done
    /\ Ended(prev, "compress", {"returned"})
    /\ Len(prev.after.leads) = 1
    /\ HasLlmScore(RootOf(prev.after, prev.arg))
    /\ leads = prev.after.leads
    /\ OfOthers(applicants, experience, run.arg) # <<>>
    /\ experience # run.before.experience


====
